---------------------------- MODULE Spec2Model ----------------------------
(***************************************************************************)
(* A model of pyena/client.py: the response classifier handle_response,    *)
(* the instrument normaliser _convert_platform, the submission client      *)
(* submit_today and the orchestrator cli().                                *)
(*                                                                         *)
(* Python values are modelled as follows.  A str that the code takes apart, *)
(* compares with None or prints is the sequence of its characters          *)
(* (one-character strings), so that split(), replace(), lower(), join()    *)
(* and the "in" substring test are computed rather than assumed; a str     *)
(* that is only passed along (a center name, a tag, a URL) is written as a *)
(* string.  None is a value distinct from every str.  An HTTP response is  *)
(* a record [status_code, content]; content is the document as             *)
(* BeautifulSoup's XML parser exposes it: its elements in document order,  *)
(* each with a tag, an accession attribute (None when the attribute is     *)
(* absent) and a text.  An XML document the code builds is the record of   *)
(* the values substituted into its template.                               *)
(***************************************************************************)
EXTENDS Integers, Sequences, FiniteSets, TLC

VARIABLES
    pc,         \* cli(): the position in the orchestrator
    args,       \* cli(): the parsed command line (argparse namespace)
    locals,     \* cli(): the bound local variables of cli(), name -> value
    requests,   \* every request sent to a remote service so far, in order
    submits,    \* one record per completed call of submit_today, in order
    calls,      \* the functions cli() has invoked so far, in order
    stdout,     \* the lines written to standard output so far
    proc,       \* the process: running, exited with a code, or died on an exception
    call,       \* the pure-function harnesses: the function applied and its arguments
    ret         \* the pure-function harnesses: the value returned

vars == <<pc, args, locals, requests, submits, calls, stdout, proc, call, ret>>

---------------------------------------------------------------------------
(* Python values                                                           *)

\* Python's None: a one-element sequence that is no str (its element is not a character).
None == <<"None">>

\* Python truthiness of an Optional[str] (and of a list): None, "" and [] are falsy.
Truthy(x) == x # None /\ x # <<>>

\* str(x) for the values cli() prints: None prints as the four characters None.
Str(x) == IF x = None THEN <<"N", "o", "n", "e">> ELSE x

\* str(n) for the two integers cli() prints, the flags 0 and 1.
StrFlag(n) == IF n = 1 THEN <<"1">> ELSE <<"0">>

\* str.lower() on ASCII: the upper-case letters and their lower-case forms.
ToLower ==
    ("A" :> "a") @@ ("B" :> "b") @@ ("C" :> "c") @@ ("D" :> "d") @@ ("E" :> "e") @@
    ("F" :> "f") @@ ("G" :> "g") @@ ("H" :> "h") @@ ("I" :> "i") @@ ("J" :> "j") @@
    ("K" :> "k") @@ ("L" :> "l") @@ ("M" :> "m") @@ ("N" :> "n") @@ ("O" :> "o") @@
    ("P" :> "p") @@ ("Q" :> "q") @@ ("R" :> "r") @@ ("S" :> "s") @@ ("T" :> "t") @@
    ("U" :> "u") @@ ("V" :> "v") @@ ("W" :> "w") @@ ("X" :> "x") @@ ("Y" :> "y") @@
    ("Z" :> "z")

\* s.lower()
Lower(s) == [i \in 1..Len(s) |-> IF s[i] \in DOMAIN ToLower THEN ToLower[s[i]] ELSE s[i]]

\* s.replace(old, new) for one-character strs old and new
ReplaceChar(s, old, new) == [i \in 1..Len(s) |-> IF s[i] = old THEN new ELSE s[i]]

\* s.replace(old, "") for a one-character str old
RemoveChar(s, old) == SelectSeq(s, LAMBDA c : c # old)

\* needle in hay, for two strs
Contains(needle, hay) ==
    \E i \in 0..(Len(hay) - Len(needle)) : SubSeq(hay, i + 1, i + Len(needle)) = needle

\* The whitespace characters str.split() separates on, among those the inputs use.
Whitespace == {" ", "\n", "\t"}

\* s.split(): the maximal runs of non-whitespace characters, in order.
Split(s) ==
    LET starts == {i \in 1..Len(s) :
                     s[i] \notin Whitespace /\ (i = 1 \/ s[i - 1] \in Whitespace)}
        ends   == {i \in 1..Len(s) :
                     s[i] \notin Whitespace /\ (i = Len(s) \/ s[i + 1] \in Whitespace)}
        Nth(S, k) == CHOOSE i \in S : Cardinality({j \in S : j <= i}) = k
    IN  [k \in 1..Cardinality(starts) |-> SubSeq(s, Nth(starts, k), Nth(ends, k))]

---------------------------------------------------------------------------
(* _convert_platform                                                       *)

ILLUMINA ==
    <<"I", "L", "L", "U", "M", "I", "N", "A">>

OXFORD_NANOPORE ==
    <<"O", "X", "F", "O", "R", "D", "_", "N", "A", "N", "O", "P", "O", "R", "E">>

ION_TORRENT ==
    <<"I", "O", "N", "_", "T", "O", "R", "R", "E", "N", "T">>

\* The instrument table of _convert_platform, flattened in the iteration order of the
\* nested dicts (platform by platform, key by key): <<platform, key, model>>.
valid_enums ==
    <<
      \* 'X Five': 'HiSeq X Five'  (client.py:35)
      [make |-> ILLUMINA,
       key |-> <<"X", " ", "F", "i", "v", "e">>,
       model |-> <<"H", "i", "S", "e", "q", " ", "X", " ", "F", "i", "v", "e">>],
      \* 'X Ten': 'HiSeq X Ten'  (client.py:36)
      [make |-> ILLUMINA,
       key |-> <<"X", " ", "T", "e", "n">>,
       model |-> <<"H", "i", "S", "e", "q", " ", "X", " ", "T", "e", "n">>],
      \* 'Genome Analyzer': 'Illumina Genome Analyzer'  (client.py:37)
      [make |-> ILLUMINA,
       key |-> <<"G", "e", "n", "o", "m", "e", " ", "A", "n", "a", "l", "y", "z", "e", "r">>,
       model |-> <<"I", "l", "l", "u", "m", "i", "n", "a", " ", "G", "e", "n", "o", "m", "e", " ", "A", "n", "a", "l", "y", "z", "e", "r">>],
      \* 'Genome Analyzer II': 'Illumina Genome Analyzer II'  (client.py:38)
      [make |-> ILLUMINA,
       key |-> <<"G", "e", "n", "o", "m", "e", " ", "A", "n", "a", "l", "y", "z", "e", "r", " ", "I", "I">>,
       model |-> <<"I", "l", "l", "u", "m", "i", "n", "a", " ", "G", "e", "n", "o", "m", "e", " ", "A", "n", "a", "l", "y", "z", "e", "r", " ", "I", "I">>],
      \* 'Genome Analyzer IIx': 'Illumina Genome Analyzer IIx'  (client.py:39)
      [make |-> ILLUMINA,
       key |-> <<"G", "e", "n", "o", "m", "e", " ", "A", "n", "a", "l", "y", "z", "e", "r", " ", "I", "I", "x">>,
       model |-> <<"I", "l", "l", "u", "m", "i", "n", "a", " ", "G", "e", "n", "o", "m", "e", " ", "A", "n", "a", "l", "y", "z", "e", "r", " ", "I", "I", "x">>],
      \* 'HiScanSQ': 'Illumina HiScanSQ'  (client.py:40)
      [make |-> ILLUMINA,
       key |-> <<"H", "i", "S", "c", "a", "n", "S", "Q">>,
       model |-> <<"I", "l", "l", "u", "m", "i", "n", "a", " ", "H", "i", "S", "c", "a", "n", "S", "Q">>],
      \* 'HiSeq 1000': 'Illumina HiSeq 1000'  (client.py:41)
      [make |-> ILLUMINA,
       key |-> <<"H", "i", "S", "e", "q", " ", "1", "0", "0", "0">>,
       model |-> <<"I", "l", "l", "u", "m", "i", "n", "a", " ", "H", "i", "S", "e", "q", " ", "1", "0", "0", "0">>],
      \* 'HiSeq 1500': 'Illumina HiSeq 1500'  (client.py:42)
      [make |-> ILLUMINA,
       key |-> <<"H", "i", "S", "e", "q", " ", "1", "5", "0", "0">>,
       model |-> <<"I", "l", "l", "u", "m", "i", "n", "a", " ", "H", "i", "S", "e", "q", " ", "1", "5", "0", "0">>],
      \* 'HiSeq 2000': 'Illumina HiSeq 2000'  (client.py:43)
      [make |-> ILLUMINA,
       key |-> <<"H", "i", "S", "e", "q", " ", "2", "0", "0", "0">>,
       model |-> <<"I", "l", "l", "u", "m", "i", "n", "a", " ", "H", "i", "S", "e", "q", " ", "2", "0", "0", "0">>],
      \* 'HiSeq 2500': 'Illumina HiSeq 2500'  (client.py:44)
      [make |-> ILLUMINA,
       key |-> <<"H", "i", "S", "e", "q", " ", "2", "5", "0", "0">>,
       model |-> <<"I", "l", "l", "u", "m", "i", "n", "a", " ", "H", "i", "S", "e", "q", " ", "2", "5", "0", "0">>],
      \* 'HiSeq 3000': 'Illumina HiSeq 3000'  (client.py:45)
      [make |-> ILLUMINA,
       key |-> <<"H", "i", "S", "e", "q", " ", "3", "0", "0", "0">>,
       model |-> <<"I", "l", "l", "u", "m", "i", "n", "a", " ", "H", "i", "S", "e", "q", " ", "3", "0", "0", "0">>],
      \* 'HiSeq 4000': 'Illumina HiSeq 4000'  (client.py:46)
      [make |-> ILLUMINA,
       key |-> <<"H", "i", "S", "e", "q", " ", "4", "0", "0", "0">>,
       model |-> <<"I", "l", "l", "u", "m", "i", "n", "a", " ", "H", "i", "S", "e", "q", " ", "4", "0", "0", "0">>],
      \* 'iSeq 100': 'Illumina iSeq 100'  (client.py:47)
      [make |-> ILLUMINA,
       key |-> <<"i", "S", "e", "q", " ", "1", "0", "0">>,
       model |-> <<"I", "l", "l", "u", "m", "i", "n", "a", " ", "i", "S", "e", "q", " ", "1", "0", "0">>],
      \* 'MiSeq': 'Illumina MiSeq'  (client.py:48)
      [make |-> ILLUMINA,
       key |-> <<"M", "i", "S", "e", "q">>,
       model |-> <<"I", "l", "l", "u", "m", "i", "n", "a", " ", "M", "i", "S", "e", "q">>],
      \* 'MiniSeq': 'Illumina MiniSeq'  (client.py:49)
      [make |-> ILLUMINA,
       key |-> <<"M", "i", "n", "i", "S", "e", "q">>,
       model |-> <<"I", "l", "l", "u", "m", "i", "n", "a", " ", "M", "i", "n", "i", "S", "e", "q">>],
      \* 'NovaSeq 6000': 'Illumina NovaSeq 6000'  (client.py:50)
      [make |-> ILLUMINA,
       key |-> <<"N", "o", "v", "a", "S", "e", "q", " ", "6", "0", "0", "0">>,
       model |-> <<"I", "l", "l", "u", "m", "i", "n", "a", " ", "N", "o", "v", "a", "S", "e", "q", " ", "6", "0", "0", "0">>],
      \* 'NextSeq 500': 'NextSeq 500'  (client.py:51)
      [make |-> ILLUMINA,
       key |-> <<"N", "e", "x", "t", "S", "e", "q", " ", "5", "0", "0">>,
       model |-> <<"N", "e", "x", "t", "S", "e", "q", " ", "5", "0", "0">>],
      \* 'NextSeq 550': 'NextSeq 550'  (client.py:52)
      [make |-> ILLUMINA,
       key |-> <<"N", "e", "x", "t", "S", "e", "q", " ", "5", "5", "0">>,
       model |-> <<"N", "e", "x", "t", "S", "e", "q", " ", "5", "5", "0">>],
      \* 'hiseq': 'unspecified'  (client.py:53)
      [make |-> ILLUMINA,
       key |-> <<"h", "i", "s", "e", "q">>,
       model |-> <<"u", "n", "s", "p", "e", "c", "i", "f", "i", "e", "d">>],
      \* 'miseq': 'unspecified'  (client.py:54)
      [make |-> ILLUMINA,
       key |-> <<"m", "i", "s", "e", "q">>,
       model |-> <<"u", "n", "s", "p", "e", "c", "i", "f", "i", "e", "d">>],
      \* 'iseq': 'unspecified'  (client.py:55)
      [make |-> ILLUMINA,
       key |-> <<"i", "s", "e", "q">>,
       model |-> <<"u", "n", "s", "p", "e", "c", "i", "f", "i", "e", "d">>],
      \* 'novaseq': 'unspecified'  (client.py:56)
      [make |-> ILLUMINA,
       key |-> <<"n", "o", "v", "a", "s", "e", "q">>,
       model |-> <<"u", "n", "s", "p", "e", "c", "i", "f", "i", "e", "d">>],
      \* 'nextseq': 'unspecified'  (client.py:57)
      [make |-> ILLUMINA,
       key |-> <<"n", "e", "x", "t", "s", "e", "q">>,
       model |-> <<"u", "n", "s", "p", "e", "c", "i", "f", "i", "e", "d">>],
      \* 'MinION': 'MinION'  (client.py:60)
      [make |-> OXFORD_NANOPORE,
       key |-> <<"M", "i", "n", "I", "O", "N">>,
       model |-> <<"M", "i", "n", "I", "O", "N">>],
      \* 'GridION': 'GridION'  (client.py:61)
      [make |-> OXFORD_NANOPORE,
       key |-> <<"G", "r", "i", "d", "I", "O", "N">>,
       model |-> <<"G", "r", "i", "d", "I", "O", "N">>],
      \* 'PromethION': 'PromethION'  (client.py:62)
      [make |-> OXFORD_NANOPORE,
       key |-> <<"P", "r", "o", "m", "e", "t", "h", "I", "O", "N">>,
       model |-> <<"P", "r", "o", "m", "e", "t", "h", "I", "O", "N">>],
      \* 'Ion Torrent PGM': 'Ion Torrent PGM'  (client.py:65)
      [make |-> ION_TORRENT,
       key |-> <<"I", "o", "n", " ", "T", "o", "r", "r", "e", "n", "t", " ", "P", "G", "M">>,
       model |-> <<"I", "o", "n", " ", "T", "o", "r", "r", "e", "n", "t", " ", "P", "G", "M">>],
      \* 'Ion Torrent Proton': 'Ion Torrent Proton'  (client.py:66)
      [make |-> ION_TORRENT,
       key |-> <<"I", "o", "n", " ", "T", "o", "r", "r", "e", "n", "t", " ", "P", "r", "o", "t", "o", "n">>,
       model |-> <<"I", "o", "n", " ", "T", "o", "r", "r", "e", "n", "t", " ", "P", "r", "o", "t", "o", "n">>],
      \* 'Ion Torrent S5': 'Ion Torrent S5'  (client.py:67)
      [make |-> ION_TORRENT,
       key |-> <<"I", "o", "n", " ", "T", "o", "r", "r", "e", "n", "t", " ", "S", "5">>,
       model |-> <<"I", "o", "n", " ", "T", "o", "r", "r", "e", "n", "t", " ", "S", "5">>],
      \* 'Ion Torrent S5 XL': 'Ion Torrent S5 XL'  (client.py:68)
      [make |-> ION_TORRENT,
       key |-> <<"I", "o", "n", " ", "T", "o", "r", "r", "e", "n", "t", " ", "S", "5", " ", "X", "L">>,
       model |-> <<"I", "o", "n", " ", "T", "o", "r", "r", "e", "n", "t", " ", "S", "5", " ", "X", "L">>]
    >>

\* The first table entry, in iteration order from entry i, whose lower-cased key is a
\* substring of the normalised name; <<None, None>> when the loops run out.
RECURSIVE FirstMatchFrom(_, _)
FirstMatchFrom(name, i) ==
    IF i > Len(valid_enums) THEN <<None, None>>
    ELSE IF Contains(Lower(valid_enums[i].key), name)
         THEN <<valid_enums[i].make, valid_enums[i].model>>
         ELSE FirstMatchFrom(name, i + 1)

\* _convert_platform(instrument_name): underscores become spaces, the name is lower-cased,
\* and the first matching entry decides.
_convert_platform(instrument_name) ==
    FirstMatchFrom(Lower(ReplaceChar(instrument_name, "_", " ")), 1)

---------------------------------------------------------------------------
(* handle_response                                                         *)

\* The outcome codes handle_response returns (the names are the specification's).
FATAL == -1
OK == 0
DUPLICATE == 1
MISSING_UPLOAD == -3

\* The HTTP status handle_response accepts.
HTTP_OK == 200

\* accession=False, the default of handle_response's third parameter: no tag to extract.
NoTag == "False"

\* The three error phrases handle_response looks for.
\* 'already exists in the submission account with accession:'
PhraseExists ==
    <<"a", "l", "r", "e", "a", "d", "y", " ", "e", "x", "i", "s", "t", "s", " ", "i", "n",
      " ", "t", "h", "e", " ", "s", "u", "b", "m", "i", "s", "s", "i", "o", "n", " ", "a",
      "c", "c", "o", "u", "n", "t", " ", "w", "i", "t", "h", " ", "a", "c", "c", "e", "s",
      "s", "i", "o", "n", ":">>

\* 'has already been submitted and is waiting to be processed'
PhrasePending ==
    <<"h", "a", "s", " ", "a", "l", "r", "e", "a", "d", "y", " ", "b", "e", "e", "n", " ",
      "s", "u", "b", "m", "i", "t", "t", "e", "d", " ", "a", "n", "d", " ", "i", "s", " ",
      "w", "a", "i", "t", "i", "n", "g", " ", "t", "o", " ", "b", "e", " ", "p", "r", "o",
      "c", "e", "s", "s", "e", "d">>

\* 'does not exist in the upload area'
PhraseMissing ==
    <<"d", "o", "e", "s", " ", "n", "o", "t", " ", "e", "x", "i", "s", "t", " ", "i", "n",
      " ", "t", "h", "e", " ", "u", "p", "l", "o", "a", "d", " ", "a", "r", "e", "a">>

\* soup.findAll(tag): the elements with that tag, in document order.
findAll(content, tag) == SelectSeq(content, LAMBDA el : el.tag = tag)

\* soup.find(tag).get("accession") inside try/except: the accession attribute of the first
\* element with that tag; None when the attribute is absent, and None when there is no such
\* element (find returns None, .get raises, the except clause passes).
ExtractAccession(content, tag) ==
    LET found == findAll(content, tag)
    IN  IF found = <<>> THEN None ELSE found[1].accession

\* A variant of line 153 that leaves the period on the accession.
LastTokenStripped_KeepPeriod(text) ==
    LET tokens == Split(text)
    IN  RemoveChar(tokens[Len(tokens)], "\"")

\* error.text.split()[-1].replace('"', "").replace('.', "")
LastTokenStripped(text) ==
    LET tokens == Split(text)
    IN  RemoveChar(RemoveChar(tokens[Len(tokens)], "\""), ".")

\* The for loop over the ERROR elements, from the i-th on, with its three breaks. The pair
\* is <<response_code, response_accession>>, which start as <<-1, None>>.
RECURSIVE ScanErrors(_, _)
ScanErrors(errors, i) ==
    IF i > Len(errors) THEN <<FATAL, None>>
    ELSE LET text == errors[i].text
         IN  IF Contains(PhraseExists, text)
                 THEN <<DUPLICATE, LastTokenStripped(text)>>
             ELSE IF Contains(PhrasePending, text)
                 THEN <<DUPLICATE, Split(text)[5]>>
             ELSE IF Contains(PhraseMissing, text)
                 THEN <<MISSING_UPLOAD, None>>
             ELSE ScanErrors(errors, i + 1)

\* handle_response(status_code, content, accession): <<response_code, response_accession>>.
\* What it writes to stderr is not part of the model.
handle_response(status_code, content, accession) ==
    IF status_code # HTTP_OK THEN <<FATAL, None>>
    ELSE LET errors == findAll(content, "ERROR")
         IN  IF Len(errors) > 0
             THEN LET r == ScanErrors(errors, 1)
                  IN  IF ~Truthy(r[2]) /\ r[1] = FATAL THEN <<FATAL, r[2]>> ELSE r
             ELSE <<OK, IF accession # NoTag THEN ExtractAccession(content, accession)
                        ELSE None>>

---------------------------------------------------------------------------
(* The remote services: what the archive, the search endpoint and the      *)
(* file-transfer server may answer.  They are outside the program, so      *)
(* every answer is a nondeterministic choice from these sets.              *)

AccERS1 == <<"E", "R", "S", "1">>
AccERS2 == <<"E", "R", "S", "2">>
AccERS8 == <<"E", "R", "S", "8">>
AccERS9 == <<"E", "R", "S", "9">>
AccERX1 == <<"E", "R", "X", "1">>
AccERR1 == <<"E", "R", "R", "1">>
AccERA1 == <<"E", "R", "A", "1">>

\* An element of a response document.
Element(tag, accession, text) == [tag |-> tag, accession |-> accession, text |-> text]

ErrorElement(text) == Element("ERROR", None, text)

\* The sample already exists in the submission account with accession: "ERS1".
TextExistsS ==
    <<"T", "h", "e", " ", "s", "a", "m", "p", "l", "e", " ">> \o
    PhraseExists \o
    <<" ", "\"", "E", "R", "S", "1", "\"", ".">>

\* The experiment already exists in the submission account with accession: "ERX1".
TextExistsX ==
    <<"T", "h", "e", " ", "e", "x", "p", "e", "r", "i", "m", "e", "n", "t", " ">> \o
    PhraseExists \o
    <<" ", "\"", "E", "R", "X", "1", "\"", ".">>

\* The run already exists in the submission account with accession: "ERR1".
TextExistsR ==
    <<"T", "h", "e", " ", "r", "u", "n", " ">> \o
    PhraseExists \o
    <<" ", "\"", "E", "R", "R", "1", "\"", ".">>

\* Sample already exists in the submission account with accession: "ER.S2".
TextExistsDotted ==
    <<"S", "a", "m", "p", "l", "e", " ">> \o
    PhraseExists \o
    <<" ", "\"", "E", "R", ".", "S", "2", "\"", ".">>

\* Sample already exists in the submission account with accession: "".
TextExistsEmpty ==
    <<"S", "a", "m", "p", "l", "e", " ">> \o
    PhraseExists \o
    <<" ", "\"", "\"", ".">>

\* Sample already exists in the submission account with accession:
TextExistsBare ==
    <<"S", "a", "m", "p", "l", "e", " ">> \o
    PhraseExists

\* In run, alias: r1 ERR7 has already been submitted and is waiting to be processed
TextPending ==
    <<"I", "n", " ", "r", "u", "n", ",", " ", "a", "l", "i", "a", "s", ":", " ", "r", "1", " ", "E", "R", "R", "7", " ">> \o
    PhrasePending

\* xhas already been submitted and is waiting to be processedy
TextPendingGlued ==
    <<"x">> \o
    PhrasePending \o
    <<"y">>

\* File r1.bam does not exist in the upload area
TextMissing ==
    <<"F", "i", "l", "e", " ", "r", "1", ".", "b", "a", "m", " ">> \o
    PhraseMissing

\* Sample taxon is invalid
TextUnknown ==
    <<"S", "a", "m", "p", "l", "e", " ", "t", "a", "x", "o", "n", " ", "i", "s", " ", "i", "n", "v", "a", "l", "i", "d">>

\* File does not exist in the upload area and already exists in the submission account with accession: "ERS3".
TextMissingExists ==
    <<"F", "i", "l", "e", " ">> \o
    PhraseMissing \o
    <<" ", "a", "n", "d", " ">> \o
    PhraseExists \o
    <<" ", "\"", "E", "R", "S", "3", "\"", ".">>

\* File f1 does not exist in the upload area and has already been submitted and is waiting to be processed
TextMissingPending ==
    <<"F", "i", "l", "e", " ", "f", "1", " ">> \o
    PhraseMissing \o
    <<" ", "a", "n", "d", " ">> \o
    PhrasePending

\* It has already been submitted and is waiting to be processed and already exists in the submission account with accession: "ERS4".
TextPendingExists ==
    <<"I", "t", " ">> \o
    PhrasePending \o
    <<" ", "a", "n", "d", " ">> \o
    PhraseExists \o
    <<" ", "\"", "E", "R", "S", "4", "\"", ".">>

\* Sample already exists in the submission account with accession ERS9
TextNearMiss ==
    <<"S", "a", "m", "p", "l", "e", " ", "a", "l", "r", "e", "a", "d", "y", " ", "e", "x", "i", "s", "t", "s", " ", "i", "n", " ", "t", "h", "e", " ", "s", "u", "b", "m", "i", "s", "s", "i", "o", "n", " ", "a", "c", "c", "o", "u", "n", "t", " ", "w", "i", "t", "h", " ", "a", "c", "c", "e", "s", "s", "i", "o", "n", " ", "E", "R", "S", "9">>

\* A receipt without errors that carries an element of the submitted type.
Receipt(tag, accession) ==
    <<Element("RECEIPT", None, <<>>), Element(tag, accession, <<>>),
      Element("SUBMISSION", AccERA1, <<>>)>>

\* A receipt without errors and without any element of a submitted type (the answer to a
\* release request looks like this).
BareReceipt == <<Element("RECEIPT", None, <<>>), Element("SUBMISSION", AccERA1, <<>>)>>

\* A receipt that reports the given errors.
ErrorReceipt(texts) ==
    <<Element("RECEIPT", None, <<>>)>> \o [i \in 1..Len(texts) |-> ErrorElement(texts[i])]

Response(status_code, content) == [status_code |-> status_code, content |-> content]

\* The accession the archive assigns to a new object of each type.
NewAccession(submit_type) ==
    IF submit_type = "SAMPLE" THEN AccERS1
    ELSE IF submit_type = "EXPERIMENT" THEN AccERX1
    ELSE AccERR1

\* The error the archive reports for an object of each type that it already holds.
ExistsText(submit_type) ==
    IF submit_type = "SAMPLE" THEN TextExistsS
    ELSE IF submit_type = "EXPERIMENT" THEN TextExistsX
    ELSE TextExistsR

\* What the drop-box may answer to the submission of a document of the given type.
SubmitResponses(submit_type) ==
    { Response(200, Receipt(submit_type, NewAccession(submit_type))),
      Response(200, Receipt(submit_type, <<>>)),
      Response(200, BareReceipt),
      Response(200, ErrorReceipt(<<ExistsText(submit_type)>>)),
      Response(200, ErrorReceipt(<<TextMissing>>)),
      Response(200, ErrorReceipt(<<TextUnknown>>)),
      Response(500, <<>>) }

\* What the drop-box may answer to a release request.
ReleaseResponses ==
    { Response(200, BareReceipt),
      Response(200, ErrorReceipt(<<TextPending>>)),
      Response(200, ErrorReceipt(<<TextUnknown>>)),
      Response(500, <<>>) }

\* The longest list of hits the search endpoint returns in the model.
MaxHits == 2

\* A sample record of the search endpoint's JSON answer.
Hit(secondary) == [sample_accession |-> AccERS9, secondary_sample_accession |-> secondary]

Hits == {Hit(AccERS8), Hit(AccERS2)}

\* json.loads(r.text) of get_sample_list: a list of at most MaxHits sample records.
SearchResults == UNION {[1..n -> Hits] : n \in 0..MaxHits}

---------------------------------------------------------------------------
(* _add_today, _release_target, submit_today                               *)

\* datetime.today().strftime('%Y-%m-%d'): the day of the run.
Today == <<"2", "0", "2", "0", "-", "0", "6", "-", "0", "1">>

\* A variant of _add_today that ignores modify.
_add_today_AlwaysAdd(center_name, modify) ==
    [center_name |-> center_name,
     actions |-> <<[name |-> "ADD"], [name |-> "HOLD", HoldUntilDate |-> Today]>>]

\* _add_today(center_name, modify): the SUBMISSION envelope posted with a document.
_add_today(center_name, modify) ==
    [center_name |-> center_name,
     actions |-> IF modify
                 THEN <<[name |-> "MODIFY"]>>
                 ELSE <<[name |-> "ADD"], [name |-> "HOLD", HoldUntilDate |-> Today]>>]

\* The drop-box endpoint selected by real.
Endpoint(real) ==
    IF real THEN "https://www.ebi.ac.uk/ena/submit/drop-box/submit/"
    ELSE "https://wwwdev.ebi.ac.uk/ena/submit/drop-box/submit/"

\* The request _release_target(target, center_name, real) posts. str % target formats a
\* None target as the text None.
_release_target(target, center_name, real) ==
    [kind |-> "POST", url |-> Endpoint(real), doc_type |-> "",
     payload |-> <<>>,
     submission |-> [center_name |-> center_name,
                     actions |-> <<[name |-> "RELEASE", target |-> Str(target)]>>]]

\* The request submit_today posts first: the document keyed by its type, plus the envelope.
SubmitRequest(submit_type, payload, center_name, real, modify) ==
    [kind |-> "POST", url |-> Endpoint(real), doc_type |-> submit_type,
     payload |-> payload,
     submission |-> _add_today(center_name, modify)]

\* A variant of line 206 that releases whatever the first response was.
ReleaseWanted_AnyStatus(release_asap, status) == release_asap

\* if release_asap and status == 0
ReleaseWanted(release_asap, status) == release_asap /\ status = 0

\* The status submit_today returns: the variable status is assigned from the first response
\* and assigned again from the release response when a release is made.
ReturnedStatus(first_status, released, release_status) ==
    IF released THEN release_status ELSE first_status

\* submit_today(submit_type, payload, center_name, release_asap, real, modify), given the
\* archive's answer r to the submission and its answer rr to a release request (rr is read
\* only if the release is made). requests: what it posts, in order; ret: what it returns;
\* the other fields record what happened inside, for the properties.
submit_today(submit_type, payload, center_name, release_asap, real, modify, r, rr) ==
    LET first    == handle_response(r.status_code, r.content, submit_type)
        released == ReleaseWanted(release_asap, first[1])
        second   == handle_response(rr.status_code, rr.content, NoTag)
        status   == ReturnedStatus(first[1], released, second[1])
    IN  [submit_type  |-> submit_type,
         release_asap |-> release_asap,
         first        |-> first,
         released     |-> released,
         release      |-> IF released THEN second ELSE <<>>,
         requests     |-> <<SubmitRequest(submit_type, payload, center_name, real, modify)>>
                          \o (IF released
                              THEN <<_release_target(first[2], center_name, real)>>
                              ELSE <<>>),
         ret          |-> <<status, first[2]>>]

---------------------------------------------------------------------------
(* register_sample, register_experiment, register_run                      *)

\* The result of a register_* call that raised instead of returning: the exception, and
\* the requests it had sent before.
Raised(exception, sent) == [raised |-> exception, requests |-> sent, submitted |-> FALSE]

\* The result of a register_* call that returned what submit_today returned.
Returned(sub, sent_before) ==
    [raised |-> "", requests |-> sent_before \o sub.requests, submitted |-> TRUE,
     submit |-> sub, ret |-> sub.ret]

\* {x[0]: x[1] for x in pairs}, then the comprehension that emits the attributes whose
\* value is not None and not empty (the tags of the inputs are distinct).
EmittedAttributes(pairs) == SelectSeq(pairs, LAMBDA x : x[2] # None /\ Len(x[2]) > 0)

\* A variant of lines 229-232 that never asks for the release.
SampleReleaseAsap_Never(modify) == FALSE

\* release_asap as register_sample passes it: False in modify mode, True otherwise.
SampleReleaseAsap(modify) == ~modify

\* register_sample(sample_alias, taxon_id, center_name, attributes, real, modify)
register_sample(sample_alias, taxon_id, center_name, attributes, real, modify, r, rr) ==
    LET s_xml == [doc |-> "SAMPLE_SET", alias |-> sample_alias, center_name |-> center_name,
                  taxon_id |-> taxon_id, attributes |-> EmittedAttributes(attributes)]
    IN  Returned(submit_today("SAMPLE", s_xml, center_name, SampleReleaseAsap(modify),
                              real, modify, r, rr), <<>>)

\* _convert_library_strategy(s): one exception, everything else passes through.
_convert_library_strategy(s) == IF s = "TARGETED_CAPTURE" THEN "Targeted-Capture" ELSE s

\* register_experiment(exp_alias, study_accession, sample_accession, instrument, library_d,
\* center_name, attributes, real). Building e_xml concatenates sample_accession to a str,
\* which raises TypeError when it is None; nothing has been sent by then.
register_experiment(exp_alias, study_accession, sample_accession, instrument, library_d, center_name, attributes, real, r, rr) ==
    LET pm    == _convert_platform(instrument)
        e_xml == [doc |-> "EXPERIMENT_SET", alias |-> exp_alias, center_name |-> center_name,
                  study_ref |-> study_accession, sample_descriptor |-> sample_accession,
                  library |-> library_d, layout |-> "SINGLE",
                  platform |-> IF Truthy(pm[1]) THEN pm ELSE <<>>,
                  attributes |-> EmittedAttributes(attributes)]
    IN  IF sample_accession = None THEN Raised("TypeError", <<>>)
        ELSE Returned(submit_today("EXPERIMENT", e_xml, center_name, TRUE, real, FALSE,
                                   r, rr), <<>>)

\* os.path.basename(fn): what follows the last "/" of the path (the whole path when it has
\* none, the empty str when it ends with one).
Basename(fn) ==
    LET slashes == {i \in 1..Len(fn) : fn[i] = "/"}
        last    == IF slashes = {} THEN 0
                   ELSE CHOOSE i \in slashes : \A j \in slashes : j <= i
    IN  SubSeq(fn, last + 1, Len(fn))

\* hashfile(fn) of pyena/util.py: the MD5 checksum of the file, kept symbolic.
hashfile(fn) == [md5_of |-> fn]

\* The STOR command register_run issues when upload is set: the local file fn is stored
\* under its base name ('STOR %s' % os.path.basename(fn)); payload is that remote name.
FtpStore(fn) ==
    [kind |-> "FTP", url |-> "webin.ebi.ac.uk", doc_type |-> "", payload |-> Basename(fn),
     submission |-> <<>>]

\* How the file transfer of lines 287-293 can end: it completes; it raises before any STOR
\* command is issued (FTP(...) fails to connect or log in, or open(fn, 'rb') fails); or it
\* raises once the STOR command has been issued (storbinary or quit fails).
FtpOutcomes == {"stored", "failed_before_stor", "failed_after_stor"}

\* register_run(run_alias, fn, exp_accession, center_name, fn_type, real, upload), given
\* how the file transfer ends (ftp, one of FtpOutcomes; read only when upload is set). A
\* failed transfer returns (-1, None) before anything else, with the STOR in the request log
\* only if it had been issued; building r_xml concatenates exp_accession to a str, which
\* raises TypeError when it is None, after the transfer.
register_run(run_alias, fn, exp_accession, center_name, fn_type, real, upload, ftp, r, rr) ==
    LET sent  == IF upload /\ ftp # "failed_before_stor" THEN <<FtpStore(fn)>> ELSE <<>>
        r_xml == [doc |-> "RUN_SET", alias |-> run_alias, center_name |-> center_name,
                  experiment_ref |-> exp_accession, filename |-> Basename(fn),
                  filetype |-> fn_type,
                  checksum_method |-> "MD5", checksum |-> hashfile(fn)]
    IN  IF upload /\ ftp # "stored"
            THEN [raised |-> "", requests |-> sent, submitted |-> FALSE,
                  ret |-> <<FATAL, None>>]
        ELSE IF exp_accession = None THEN Raised("TypeError", sent)
        ELSE Returned(submit_today("RUN", r_xml, center_name, TRUE, real, FALSE, r, rr), sent)

---------------------------------------------------------------------------
(* cli                                                                     *)

\* Values of the command line the model fixes.
SampleName == <<"s", "1">>
RunName == <<"r", "1">>
RunFilePath == <<"d", "a", "t", "a", "/", "r", "u", "n", "_", "1", "/", "r", "1", ".", "b", "a", "m">>
RunLibSource == <<"V", "I", "R", "A", "L", "_", "R", "N", "A">>
RunLibSelection == <<"R", "A", "N", "D", "O", "M", "_", "P", "C", "R">>
StudyAccession == <<"P", "R", "J", "1">>

\* --sample-attr / --experiment-attr: None when the flag is never given (argparse's default
\* for action='append'), else the list of the [tag, value] pairs given.
AttrChoices ==
    { None,
      << <<"collection_date", <<"2", "0", "2", "0">>>>, <<"note", <<>>>> >> }

\* --run-instrument: one name the table knows and one it does not.
InstrumentChoices ==
    { <<"I", "l", "l", "u", "m", "i", "n", "a", "_", "M", "i", "S", "e", "q">>,
      <<"S", "a", "n", "g", "e", "r">> }

\* The command lines of the model. The required options are always given; the run options,
\* which argparse does not require, are given unless --sample-only is.
ArgsChoices ==
    { [my_data_is_ready |-> ready, no_ftp |-> noftp, sample_only |-> only, modify |-> mod,
       study_accession |-> StudyAccession,
       sample_attr |-> sattr, sample_name |-> SampleName,
       sample_center_name |-> "CENTER", sample_taxon |-> "2697049",
       experiment_attr |-> eattr,
       run_name |-> IF only THEN None ELSE RunName,
       run_file_path |-> IF only THEN None ELSE RunFilePath,
       run_file_type |-> "bam", run_center_name |-> "CENTER",
       run_instrument |-> instr,
       run_lib_source |-> RunLibSource, run_lib_selection |-> RunLibSelection,
       run_lib_strategy |-> "TARGETED_CAPTURE", run_lib_protocol |-> ""] :
      ready \in BOOLEAN, noftp \in BOOLEAN, only \in BOOLEAN, mod \in BOOLEAN,
      sattr \in AttrChoices, eattr \in AttrChoices, instr \in InstrumentChoices }

\* The locals of cli() bound at line 343-344.
InitialLocals ==
    [sample_accession |-> None, exp_accession |-> None, run_accession |-> None,
     success |-> 0]

\* Assignment to a local: binds the name or rebinds it.
Bind(frame, name, value) == (name :> value) @@ frame

Bound(name) == name \in DOMAIN locals

Running == [state |-> "running"]
Exited(code) == [state |-> "exited", code |-> code]
\* An uncaught exception: the interpreter prints the traceback and exits with status 1.
Died(exception) == [state |-> "died", exception |-> exception, code |-> 1]

\* The request get_sample_list makes.
SearchRequest(project, samp_name) ==
    [kind |-> "GET", url |-> "https://www.ebi.ac.uk/ena/portal/api/search", doc_type |-> "",
     payload |-> [study_accession |-> project, sample_alias |-> samp_name],
     submission |-> <<>>]

\* A call cli() makes: the function, and the accession passed to it (the sample accession
\* for register_experiment, the experiment accession for register_run, else None).
Invocation(fn, accession) == [fn |-> fn, accession |-> accession]

\* A variant of line 349 that reuses an accession only when the search has several hits.
SampleExists_Several(samp_list) == Len(samp_list) > 1

\* if samp_list:
SampleExists(samp_list) == Len(samp_list) > 0

\* A variant of line 351 that reuses the accession of the last hit.
ReusedAccession_Last(samp_list) == samp_list[Len(samp_list)].secondary_sample_accession

\* Line 351: samp_list[0]["secondary_sample_accession"]
ReusedAccession(samp_list) == samp_list[1].secondary_sample_accession

\* Lines 347-352: the search, and the reuse of the first hit's secondary accession.
CheckExisting ==
    /\ pc = "check_existing"
    /\ calls' = Append(calls, Invocation("get_sample_list", None))
    /\ \E samp_list \in SearchResults :
         /\ requests' = Append(requests,
                               SearchRequest(args.study_accession, args.sample_name))
         /\ IF SampleExists(samp_list)
            THEN /\ locals' = Bind(Bind(Bind(locals, "samp_list", samp_list),
                                        "sample_accession", ReusedAccession(samp_list)),
                                   "sample_stat", 1)
                 /\ pc' = "after_sample"
            ELSE /\ locals' = Bind(locals, "samp_list", samp_list)
                 /\ pc' = "register_sample"
    /\ UNCHANGED <<args, submits, stdout, proc, call, ret>>

\* Line 354. The dict comprehension over args.sample_attr is evaluated before the call and
\* raises TypeError when the option was never given.
RegisterSample ==
    /\ pc = "register_sample"
    /\ IF args.sample_attr = None
       THEN /\ pc' = "crashed"
            /\ proc' = Died("TypeError")
            /\ UNCHANGED <<locals, requests, submits, calls>>
       ELSE \E r \in SubmitResponses("SAMPLE"), rr \in ReleaseResponses :
              LET res == register_sample(args.sample_name, args.sample_taxon,
                                         args.sample_center_name, args.sample_attr,
                                         args.my_data_is_ready, args.modify, r, rr)
              IN  /\ locals' = Bind(Bind(locals, "sample_stat", res.ret[1]),
                                    "sample_accession", res.ret[2])
                  /\ requests' = requests \o res.requests
                  /\ submits' = Append(submits, res.submit)
                  /\ calls' = Append(calls, Invocation("register_sample", None))
                  /\ pc' = "after_sample"
                  /\ UNCHANGED proc
    /\ UNCHANGED <<args, stdout, call, ret>>

\* A variant of line 356 that does not look at the accession.
SampleOnlySuccess_AnyAccession(sample_stat, sample_accession, sample_only) ==
    sample_stat >= 0 /\ sample_only

\* Line 356: sample_stat >= 0 and sample_accession and args.sample_only
SampleOnlySuccess(sample_stat, sample_accession, sample_only) ==
    sample_stat >= 0 /\ Truthy(sample_accession) /\ sample_only

\* Line 358: sample_stat >= 0 and not args.sample_only
ProceedToExperiment(sample_stat, sample_only) == sample_stat >= 0 /\ ~sample_only

\* A variant of line 365 that lets the run stage follow a failed experiment stage.
ProceedToRun_Always(exp_stat) == TRUE

\* Line 365: exp_stat >= 0
ProceedToRun(exp_stat) == exp_stat >= 0

\* Line 368: run_stat >= 0 and run_accession
RunSuccess(run_stat, run_accession) == run_stat >= 0 /\ Truthy(run_accession)

\* Lines 356-357: the sample-only success.
FinishSampleOnly ==
    /\ pc = "after_sample"
    /\ SampleOnlySuccess(locals.sample_stat, locals.sample_accession, args.sample_only)
    /\ locals' = Bind(locals, "success", 1)
    /\ pc' = "summary"
    /\ UNCHANGED <<args, requests, submits, calls, stdout, proc, call, ret>>

\* Neither branch of lines 356-358 is taken: the sample stage failed, or sample-only mode
\* ended without an accession.
SkipExperiment ==
    /\ pc = "after_sample"
    /\ ~SampleOnlySuccess(locals.sample_stat, locals.sample_accession, args.sample_only)
    /\ ~ProceedToExperiment(locals.sample_stat, args.sample_only)
    /\ pc' = "summary"
    /\ UNCHANGED <<args, locals, requests, submits, calls, stdout, proc, call, ret>>

\* Lines 358-364. The arguments are evaluated first: underscores become spaces in the
\* instrument, the library source and the library selection, the strategy goes through
\* _convert_library_strategy, and the dict comprehension over args.experiment_attr raises
\* TypeError when the option was never given.
RegisterExperiment ==
    /\ pc = "after_sample"
    /\ ~SampleOnlySuccess(locals.sample_stat, locals.sample_accession, args.sample_only)
    /\ ProceedToExperiment(locals.sample_stat, args.sample_only)
    /\ IF args.experiment_attr = None
       THEN /\ pc' = "crashed"
            /\ proc' = Died("TypeError")
            /\ UNCHANGED <<locals, requests, submits, calls>>
       ELSE \E r \in SubmitResponses("EXPERIMENT"), rr \in ReleaseResponses :
              LET res == register_experiment(
                             args.run_name, args.study_accession, locals.sample_accession,
                             ReplaceChar(args.run_instrument, "_", " "),
                             [source |-> ReplaceChar(args.run_lib_source, "_", " "),
                              selection |-> ReplaceChar(args.run_lib_selection, "_", " "),
                              strategy |-> _convert_library_strategy(args.run_lib_strategy),
                              protocol |-> args.run_lib_protocol],
                             args.run_center_name, args.experiment_attr,
                             args.my_data_is_ready, r, rr)
              IN  /\ requests' = requests \o res.requests
                  /\ calls' = Append(calls, Invocation("register_experiment",
                                                       locals.sample_accession))
                  /\ IF res.raised # ""
                     THEN /\ pc' = "crashed"
                          /\ proc' = Died(res.raised)
                          /\ UNCHANGED <<locals, submits>>
                     ELSE /\ locals' = Bind(Bind(locals, "exp_stat", res.ret[1]),
                                            "exp_accession", res.ret[2])
                          /\ submits' = Append(submits, res.submit)
                          /\ pc' = "after_experiment"
                          /\ UNCHANGED proc
    /\ UNCHANGED <<args, stdout, call, ret>>

\* Lines 365-369: the run stage and the success flag.
RegisterRun ==
    /\ pc = "after_experiment"
    /\ ProceedToRun(locals.exp_stat)
    /\ \E ftp \in FtpOutcomes, r \in SubmitResponses("RUN"), rr \in ReleaseResponses :
         LET do_upload == IF args.no_ftp THEN FALSE ELSE TRUE
             res == register_run(args.run_name, args.run_file_path, locals.exp_accession,
                                 args.run_center_name, args.run_file_type,
                                 args.my_data_is_ready, do_upload, ftp, r, rr)
         IN  /\ requests' = requests \o res.requests
             /\ calls' = Append(calls, Invocation("register_run", locals.exp_accession))
             /\ IF res.raised # ""
                THEN /\ pc' = "crashed"
                     /\ proc' = Died(res.raised)
                     /\ UNCHANGED <<locals, submits>>
                ELSE /\ locals' =
                          LET bound == Bind(Bind(locals, "run_stat", res.ret[1]),
                                            "run_accession", res.ret[2])
                          IN  IF RunSuccess(res.ret[1], res.ret[2])
                              THEN Bind(bound, "success", 1)
                              ELSE bound
                     /\ submits' = IF res.submitted THEN Append(submits, res.submit)
                                   ELSE submits
                     /\ pc' = "summary"
                     /\ UNCHANGED proc
    /\ UNCHANGED <<args, stdout, call, ret>>

\* Line 365 is false: the experiment stage failed.
SkipRun ==
    /\ pc = "after_experiment"
    /\ ~ProceedToRun(locals.exp_stat)
    /\ pc' = "summary"
    /\ UNCHANGED <<args, locals, requests, submits, calls, stdout, proc, call, ret>>

\* " ".join(fields)
RECURSIVE Join(_)
Join(fields) ==
    IF fields = <<>> THEN <<>>
    ELSE IF Len(fields) = 1 THEN fields[1]
    ELSE fields[1] \o <<" ">> \o Join(Tail(fields))

\* The line written at 371-381, without its newline.
SummaryLine ==
    Join(<<StrFlag(locals.success),
           StrFlag(IF args.my_data_is_ready THEN 1 ELSE 0),
           Str(args.sample_name), Str(args.run_name), Str(args.run_file_path),
           Str(args.study_accession), Str(locals.sample_accession),
           Str(locals.exp_accession), Str(locals.run_accession)>>)

\* Lines 371-381.
WriteSummary ==
    /\ pc = "summary"
    /\ stdout' = Append(stdout, SummaryLine)
    /\ pc' = "exit"
    /\ UNCHANGED <<args, locals, requests, submits, calls, proc, call, ret>>

\* Lines 382-387, and the return of cli() when success is set. Reading run_stat when the
\* run stage was never reached raises UnboundLocalError.
ExitProcess ==
    IF locals.success # 0 THEN Exited(0)
    ELSE IF args.sample_only THEN Exited(2)
    ELSE IF ~Bound("run_stat") THEN Died("UnboundLocalError")
    ELSE IF locals.run_stat < 0 THEN Exited(-locals.run_stat)
    ELSE Exited(2)

Exit ==
    /\ pc = "exit"
    /\ proc' = ExitProcess
    /\ pc' = IF ExitProcess.state = "died" THEN "crashed" ELSE "done"
    /\ UNCHANGED <<args, locals, requests, submits, calls, stdout, call, ret>>

Init ==
    /\ pc = "check_existing"
    /\ args \in ArgsChoices
    /\ locals = InitialLocals
    /\ requests = <<>>
    /\ submits = <<>>
    /\ calls = <<>>
    /\ stdout = <<>>
    /\ proc = Running
    /\ call = [fn |-> "cli"]
    /\ ret = <<>>

Next ==
    \/ CheckExisting
    \/ RegisterSample
    \/ FinishSampleOnly
    \/ SkipExperiment
    \/ RegisterExperiment
    \/ RegisterRun
    \/ SkipRun
    \/ WriteSummary
    \/ Exit

Spec == Init /\ [][Next]_vars

---------------------------------------------------------------------------
(* The pure functions, each applied to inputs drawn from a bounded set     *)

\* The state of cli() in the specifications that do not run it.
CliIdle ==
    /\ pc = "idle"
    /\ args = [none |-> TRUE]
    /\ locals = InitialLocals
    /\ requests = <<>>
    /\ submits = <<>>
    /\ calls = <<>>
    /\ stdout = <<>>
    /\ proc = Running

Instruments ==
    {
      \* 'X Five'
      <<"X", " ", "F", "i", "v", "e">>,
      \* 'X_FIVE'
      <<"X", "_", "F", "I", "V", "E">>,
      \* 'X Ten'
      <<"X", " ", "T", "e", "n">>,
      \* 'X_TEN'
      <<"X", "_", "T", "E", "N">>,
      \* 'Genome Analyzer'
      <<"G", "e", "n", "o", "m", "e", " ", "A", "n", "a", "l", "y", "z", "e", "r">>,
      \* 'GENOME_ANALYZER'
      <<"G", "E", "N", "O", "M", "E", "_", "A", "N", "A", "L", "Y", "Z", "E", "R">>,
      \* 'Genome Analyzer II'
      <<"G", "e", "n", "o", "m", "e", " ", "A", "n", "a", "l", "y", "z", "e", "r", " ", "I", "I">>,
      \* 'GENOME_ANALYZER_II'
      <<"G", "E", "N", "O", "M", "E", "_", "A", "N", "A", "L", "Y", "Z", "E", "R", "_", "I", "I">>,
      \* 'Genome Analyzer IIx'
      <<"G", "e", "n", "o", "m", "e", " ", "A", "n", "a", "l", "y", "z", "e", "r", " ", "I", "I", "x">>,
      \* 'GENOME_ANALYZER_IIX'
      <<"G", "E", "N", "O", "M", "E", "_", "A", "N", "A", "L", "Y", "Z", "E", "R", "_", "I", "I", "X">>,
      \* 'HiScanSQ'
      <<"H", "i", "S", "c", "a", "n", "S", "Q">>,
      \* 'HISCANSQ'
      <<"H", "I", "S", "C", "A", "N", "S", "Q">>,
      \* 'HiSeq 1000'
      <<"H", "i", "S", "e", "q", " ", "1", "0", "0", "0">>,
      \* 'HISEQ_1000'
      <<"H", "I", "S", "E", "Q", "_", "1", "0", "0", "0">>,
      \* 'HiSeq 1500'
      <<"H", "i", "S", "e", "q", " ", "1", "5", "0", "0">>,
      \* 'HISEQ_1500'
      <<"H", "I", "S", "E", "Q", "_", "1", "5", "0", "0">>,
      \* 'HiSeq 2000'
      <<"H", "i", "S", "e", "q", " ", "2", "0", "0", "0">>,
      \* 'HISEQ_2000'
      <<"H", "I", "S", "E", "Q", "_", "2", "0", "0", "0">>,
      \* 'HiSeq 2500'
      <<"H", "i", "S", "e", "q", " ", "2", "5", "0", "0">>,
      \* 'HISEQ_2500'
      <<"H", "I", "S", "E", "Q", "_", "2", "5", "0", "0">>,
      \* 'HiSeq 3000'
      <<"H", "i", "S", "e", "q", " ", "3", "0", "0", "0">>,
      \* 'HISEQ_3000'
      <<"H", "I", "S", "E", "Q", "_", "3", "0", "0", "0">>,
      \* 'HiSeq 4000'
      <<"H", "i", "S", "e", "q", " ", "4", "0", "0", "0">>,
      \* 'HISEQ_4000'
      <<"H", "I", "S", "E", "Q", "_", "4", "0", "0", "0">>,
      \* 'iSeq 100'
      <<"i", "S", "e", "q", " ", "1", "0", "0">>,
      \* 'ISEQ_100'
      <<"I", "S", "E", "Q", "_", "1", "0", "0">>,
      \* 'MiSeq'
      <<"M", "i", "S", "e", "q">>,
      \* 'MISEQ'
      <<"M", "I", "S", "E", "Q">>,
      \* 'MiniSeq'
      <<"M", "i", "n", "i", "S", "e", "q">>,
      \* 'MINISEQ'
      <<"M", "I", "N", "I", "S", "E", "Q">>,
      \* 'NovaSeq 6000'
      <<"N", "o", "v", "a", "S", "e", "q", " ", "6", "0", "0", "0">>,
      \* 'NOVASEQ_6000'
      <<"N", "O", "V", "A", "S", "E", "Q", "_", "6", "0", "0", "0">>,
      \* 'NextSeq 500'
      <<"N", "e", "x", "t", "S", "e", "q", " ", "5", "0", "0">>,
      \* 'NEXTSEQ_500'
      <<"N", "E", "X", "T", "S", "E", "Q", "_", "5", "0", "0">>,
      \* 'NextSeq 550'
      <<"N", "e", "x", "t", "S", "e", "q", " ", "5", "5", "0">>,
      \* 'NEXTSEQ_550'
      <<"N", "E", "X", "T", "S", "E", "Q", "_", "5", "5", "0">>,
      \* 'hiseq'
      <<"h", "i", "s", "e", "q">>,
      \* 'HISEQ'
      <<"H", "I", "S", "E", "Q">>,
      \* 'miseq'
      <<"m", "i", "s", "e", "q">>,
      \* 'iseq'
      <<"i", "s", "e", "q">>,
      \* 'ISEQ'
      <<"I", "S", "E", "Q">>,
      \* 'novaseq'
      <<"n", "o", "v", "a", "s", "e", "q">>,
      \* 'NOVASEQ'
      <<"N", "O", "V", "A", "S", "E", "Q">>,
      \* 'nextseq'
      <<"n", "e", "x", "t", "s", "e", "q">>,
      \* 'NEXTSEQ'
      <<"N", "E", "X", "T", "S", "E", "Q">>,
      \* 'MinION'
      <<"M", "i", "n", "I", "O", "N">>,
      \* 'MINION'
      <<"M", "I", "N", "I", "O", "N">>,
      \* 'GridION'
      <<"G", "r", "i", "d", "I", "O", "N">>,
      \* 'GRIDION'
      <<"G", "R", "I", "D", "I", "O", "N">>,
      \* 'PromethION'
      <<"P", "r", "o", "m", "e", "t", "h", "I", "O", "N">>,
      \* 'PROMETHION'
      <<"P", "R", "O", "M", "E", "T", "H", "I", "O", "N">>,
      \* 'Ion Torrent PGM'
      <<"I", "o", "n", " ", "T", "o", "r", "r", "e", "n", "t", " ", "P", "G", "M">>,
      \* 'ION_TORRENT_PGM'
      <<"I", "O", "N", "_", "T", "O", "R", "R", "E", "N", "T", "_", "P", "G", "M">>,
      \* 'Ion Torrent Proton'
      <<"I", "o", "n", " ", "T", "o", "r", "r", "e", "n", "t", " ", "P", "r", "o", "t", "o", "n">>,
      \* 'ION_TORRENT_PROTON'
      <<"I", "O", "N", "_", "T", "O", "R", "R", "E", "N", "T", "_", "P", "R", "O", "T", "O", "N">>,
      \* 'Ion Torrent S5'
      <<"I", "o", "n", " ", "T", "o", "r", "r", "e", "n", "t", " ", "S", "5">>,
      \* 'ION_TORRENT_S5'
      <<"I", "O", "N", "_", "T", "O", "R", "R", "E", "N", "T", "_", "S", "5">>,
      \* 'Ion Torrent S5 XL'
      <<"I", "o", "n", " ", "T", "o", "r", "r", "e", "n", "t", " ", "S", "5", " ", "X", "L">>,
      \* 'ION_TORRENT_S5_XL'
      <<"I", "O", "N", "_", "T", "O", "R", "R", "E", "N", "T", "_", "S", "5", "_", "X", "L">>,
      \* 'Sanger'
      <<"S", "a", "n", "g", "e", "r">>,
      \* 'PacBio RS'
      <<"P", "a", "c", "B", "i", "o", " ", "R", "S">>,
      \* ''
      <<>>,
      \* 'BGISEQ-500'
      <<"B", "G", "I", "S", "E", "Q", "-", "5", "0", "0">>,
      \* 'HiSeq X'
      <<"H", "i", "S", "e", "q", " ", "X">>,
      \* 'NextSeq 2000'
      <<"N", "e", "x", "t", "S", "e", "q", " ", "2", "0", "0", "0">>,
      \* 'Illumina_MiSeq'
      <<"I", "l", "l", "u", "m", "i", "n", "a", "_", "M", "i", "S", "e", "q">>,
      \* 'NovaSeq X Plus'
      <<"N", "o", "v", "a", "S", "e", "q", " ", "X", " ", "P", "l", "u", "s">>,
      \* 'Illumina HiSeq X Ten'
      <<"I", "l", "l", "u", "m", "i", "n", "a", " ", "H", "i", "S", "e", "q", " ", "X", " ", "T", "e", "n">>,
      \* 'ion_torrent_s5_xl'
      <<"i", "o", "n", "_", "t", "o", "r", "r", "e", "n", "t", "_", "s", "5", "_", "x", "l">>,
      \* 'Oxford Nanopore GridION X5'
      <<"O", "x", "f", "o", "r", "d", " ", "N", "a", "n", "o", "p", "o", "r", "e", " ", "G", "r", "i", "d", "I", "O", "N", " ", "X", "5">>,
      \* 'seq'
      <<"s", "e", "q">>
    }

InitPlatform ==
    /\ CliIdle
    /\ call \in {[fn |-> "_convert_platform", instrument_name |-> s] : s \in Instruments}
    /\ ret = <<>>

ConvertPlatform ==
    /\ call.fn = "_convert_platform"
    /\ ret = <<>>
    /\ ret' = <<_convert_platform(call.instrument_name)>>
    /\ UNCHANGED <<pc, args, locals, requests, submits, calls, stdout, proc, call>>

NextPlatform == ConvertPlatform

SpecPlatform == InitPlatform /\ [][NextPlatform]_vars

\* The HTTP statuses, documents and accession tags handle_response is applied to.
StatusCodes == {200, 404, 500}

Documents ==
    { <<>>, BareReceipt,
      Receipt("SAMPLE", AccERS1), Receipt("EXPERIMENT", AccERX1), Receipt("RUN", AccERR1),
      Receipt("SAMPLE", None), Receipt("SAMPLE", <<>>),
      <<Element("SAMPLE", AccERS1, <<>>), Element("SAMPLE", AccERS2, <<>>)>>,
      <<Element("SAMPLE", None, <<>>), Element("SAMPLE", AccERS2, <<>>)>>,
      <<Element("SAMPLE", AccERS1, <<>>), ErrorElement(TextUnknown)>>,
      <<Element("RUN", AccERR1, <<>>), ErrorElement(TextExistsS)>>,
      ErrorReceipt(<<TextExistsS>>), ErrorReceipt(<<TextExistsDotted>>),
      ErrorReceipt(<<TextExistsEmpty>>), ErrorReceipt(<<TextExistsBare>>),
      ErrorReceipt(<<TextPending>>), ErrorReceipt(<<TextPendingGlued>>),
      ErrorReceipt(<<TextMissing>>), ErrorReceipt(<<TextUnknown>>),
      ErrorReceipt(<<TextNearMiss>>), ErrorReceipt(<<<<>>>>),
      ErrorReceipt(<<TextMissingExists>>), ErrorReceipt(<<TextMissingPending>>),
      ErrorReceipt(<<TextPendingExists>>),
      ErrorReceipt(<<TextUnknown, TextExistsS>>), ErrorReceipt(<<TextMissing, TextExistsS>>),
      ErrorReceipt(<<TextPending, TextMissing>>), ErrorReceipt(<<TextExistsS, TextExistsX>>),
      ErrorReceipt(<<TextUnknown, TextNearMiss>>),
      ErrorReceipt(<<TextUnknown, TextMissing, TextPending>>) }

AccessionTags == {NoTag, "SAMPLE", "EXPERIMENT", "RUN"}

InitClassify ==
    /\ CliIdle
    /\ call \in {[fn |-> "handle_response", status_code |-> s, content |-> d,
                  accession |-> t] : s \in StatusCodes, d \in Documents, t \in AccessionTags}
    /\ ret = <<>>

Classify ==
    /\ call.fn = "handle_response"
    /\ ret = <<>>
    /\ ret' = <<handle_response(call.status_code, call.content, call.accession)>>
    /\ UNCHANGED <<pc, args, locals, requests, submits, calls, stdout, proc, call>>

NextClassify == Classify

SpecClassify == InitClassify /\ [][NextClassify]_vars

---------------------------------------------------------------------------
(* Properties                                                              *)

Range(seq) == {seq[i] : i \in 1..Len(seq)}

\* The functions cli() has invoked.
Invoked == {c.fn : c \in Range(calls)}

\* The positions in the request log of the submissions of a document of the given type,
\* of the release requests, and of the file transfers.
SubmitPositions(doc_type) ==
    {i \in 1..Len(requests) : requests[i].kind = "POST" /\ requests[i].doc_type = doc_type}

IsRelease(req) ==
    /\ req.kind = "POST"
    /\ req.doc_type = ""
    /\ Len(req.submission.actions) = 1
    /\ req.submission.actions[1].name = "RELEASE"

ReleasePositions == {i \in 1..Len(requests) : IsRelease(requests[i])}

FtpPositions == {i \in 1..Len(requests) : requests[i].kind = "FTP"}

\* The names of the actions of an envelope, in order.
ActionNames(submission) == [i \in 1..Len(submission.actions) |-> submission.actions[i].name]

\* The process has ended, by exit, by return or on an exception.
Terminated == pc \in {"done", "crashed"}

\* The order in which cli() may call the stages.
StageRank(fn) ==
    IF fn = "get_sample_list" THEN 0
    ELSE IF fn = "register_sample" THEN 1
    ELSE IF fn = "register_experiment" THEN 2
    ELSE 3

\* C1: a negative outcome of the sample stage means register_experiment and register_run
\* are never invoked; a negative outcome of register_experiment means register_run is
\* never invoked, no file is transferred and no RUN document is submitted; and the stages
\* that are invoked are invoked in the order sample, experiment, run, each at most once.
C1_FatalHalts ==
    /\ (Bound("sample_stat") /\ locals.sample_stat < 0)
           => /\ "register_experiment" \notin Invoked
              /\ "register_run" \notin Invoked
              /\ SubmitPositions("EXPERIMENT") = {}
              /\ SubmitPositions("RUN") = {}
              /\ FtpPositions = {}
    /\ (Bound("exp_stat") /\ locals.exp_stat < 0)
           => /\ "register_run" \notin Invoked
              /\ SubmitPositions("RUN") = {}
              /\ FtpPositions = {}
    /\ \A i, j \in 1..Len(calls) :
           i < j => StageRank(calls[i].fn) < StageRank(calls[j].fn)
    /\ \A i \in SubmitPositions("SAMPLE"), j \in SubmitPositions("EXPERIMENT") : i < j
    /\ \A i \in SubmitPositions("EXPERIMENT"), j \in SubmitPositions("RUN") \cup FtpPositions :
           i < j

\* C1 witness: the experiment stage returned a negative outcome and cli() went on to write
\* its summary without the run stage.
C1_Witness ==
    /\ Bound("exp_stat")
    /\ locals.exp_stat < 0
    /\ "register_experiment" \in Invoked
    /\ stdout # <<>>

\* C2: when the search returns a non-empty list, in every mode, register_sample is never
\* invoked, no SAMPLE document is submitted and no release is requested for the sample (the
\* only requests before the experiment stage is the search itself), the sample stage counts
\* as DUPLICATE, and every call of register_experiment receives the secondary accession of
\* the first hit as its sample accession, which is what the EXPERIMENT document refers to.
C2_ExistingSampleReused ==
    (Bound("samp_list") /\ Len(locals.samp_list) > 0)
        => LET reused == locals.samp_list[1].secondary_sample_accession
           IN  /\ "register_sample" \notin Invoked
               /\ SubmitPositions("SAMPLE") = {}
               /\ \A i \in ReleasePositions :
                      \E j \in SubmitPositions("EXPERIMENT") \cup SubmitPositions("RUN") : j < i
               /\ Bound("sample_stat")
               /\ locals.sample_stat = DUPLICATE
               /\ locals.sample_accession = reused
               /\ \A c \in Range(calls) :
                      c.fn = "register_experiment" => c.accession = reused
               /\ \A i \in SubmitPositions("EXPERIMENT") :
                      requests[i].payload.sample_descriptor = reused

\* C2 witness: in modify mode the search found two samples with different secondary
\* accessions and register_experiment was called with that of the first.
C2_Witness ==
    /\ args.modify
    /\ Bound("samp_list")
    /\ Len(locals.samp_list) = 2
    /\ locals.samp_list[1].secondary_sample_accession
           # locals.samp_list[2].secondary_sample_accession
    /\ \E c \in Range(calls) :
           /\ c.fn = "register_experiment"
           /\ c.accession = locals.samp_list[1].secondary_sample_accession
    /\ SubmitPositions("EXPERIMENT") # {}

\* The exit code C3 states: 0 on success, the absolute value of a negative run outcome when
\* the run stage was attempted, and 2 for every other failure.
ClaimedExitCode ==
    IF locals.success = 1 THEN 0
    ELSE IF Bound("run_stat") /\ locals.run_stat < 0 THEN 0 - locals.run_stat
    ELSE 2

\* C3: once cli() has written its summary line and the process has ended, the exit code is
\* 0 on success, |run_stat| after a negative run outcome, and 2 after every other failure
\* (a fatal sample stage and a fatal experiment stage included).
C3_ExitCode ==
    (Terminated /\ stdout # <<>>) => proc.code = ClaimedExitCode

\* Both attribute options were given on the command line.
AttributesGiven == args.sample_attr # None /\ args.experiment_attr # None

\* C4: once the sample stage has returned, whatever it and the later stages return, cli()
\* does not die on an unhandled exception, and when the process has ended exactly one
\* summary line has been written (stated for command lines that give both attribute
\* options).
C4_NoCrash ==
    (AttributesGiven /\ Bound("sample_stat"))
        => /\ pc # "crashed"
           /\ proc.state # "died"
           /\ Terminated => Len(stdout) = 1

\* The success flag on the summary line: its first field.
PrintedFlag == Split(stdout[1])[1]

\* C5 as stated: the printed flag is 1 iff, in sample-only mode, the sample stage gave a
\* non-fatal outcome with a non-null accession, or, otherwise, the run stage was attempted
\* and gave a non-fatal outcome with a non-null accession.
C5_SuccessFlag_NonNull ==
    stdout # <<>>
        => (PrintedFlag = <<"1">>
              <=> \/ /\ args.sample_only
                     /\ locals.sample_stat >= 0
                     /\ locals.sample_accession # None
                  \/ /\ ~args.sample_only
                     /\ Bound("run_stat")
                     /\ locals.run_stat >= 0
                     /\ locals.run_accession # None)

\* C5 as amended: the same with "non-null and non-empty accession"; in every other
\* execution that prints, the flag is 0.
C5_SuccessFlag ==
    stdout # <<>>
        => /\ PrintedFlag \in {<<"0">>, <<"1">>}
           /\ PrintedFlag = <<"1">>
                <=> \/ /\ args.sample_only
                       /\ locals.sample_stat >= 0
                       /\ locals.sample_accession # None
                       /\ locals.sample_accession # <<>>
                    \/ /\ ~args.sample_only
                       /\ Bound("run_stat")
                       /\ locals.run_stat >= 0
                       /\ locals.run_accession # None
                       /\ locals.run_accession # <<>>

\* C5 witness: sample-only mode, a non-fatal sample outcome whose accession is the empty
\* string, and the flag 0 on the summary line.
C5_Witness ==
    /\ stdout # <<>>
    /\ args.sample_only
    /\ locals.sample_stat >= 0
    /\ locals.sample_accession = <<>>
    /\ PrintedFlag = <<"0">>

\* What C6 says of every call of submit_today about the release: it is requested exactly
\* when release_asap is set and the first response was classified OK, the request follows
\* the submission and targets the accession of the first response, and the accession
\* returned is that of the first response.
ReleaseRule(sub) ==
    /\ sub.released <=> (sub.release_asap /\ sub.first[1] = OK)
    /\ Len(sub.requests) = IF sub.released THEN 2 ELSE 1
    /\ ~IsRelease(sub.requests[1])
    /\ sub.released
           => /\ IsRelease(sub.requests[2])
              /\ sub.requests[2].submission.actions[1].target = Str(sub.first[2])
    /\ sub.ret[2] = sub.first[2]

\* C6 as stated: the release rule, and the pair returned is the pair classified from the
\* first response, whatever the release response was.
C6_ReturnsFirstOutcome ==
    \A i \in 1..Len(submits) : ReleaseRule(submits[i]) /\ submits[i].ret = submits[i].first

\* C6 as amended: the release rule, and the outcome returned is the one classified from the
\* release response when a release was requested, else the one of the first response.
C6_ReleaseThenStatus ==
    \A i \in 1..Len(submits) :
        /\ ReleaseRule(submits[i])
        /\ submits[i].ret[1] = IF submits[i].released THEN submits[i].release[1]
                               ELSE submits[i].first[1]

\* C6 witness: a submission classified OK with an accession, whose release was refused, so
\* that submit_today returned FATAL with that accession.
C6_Witness ==
    \E i \in 1..Len(submits) :
        /\ submits[i].first[1] = OK
        /\ submits[i].first[2] = NewAccession(submits[i].submit_type)
        /\ submits[i].released
        /\ submits[i].release[1] = FATAL
        /\ submits[i].ret = <<FATAL, submits[i].first[2]>>

\* The three phrases, in the order of the rule table.
KnownPhrases == <<PhraseExists, PhrasePending, PhraseMissing>>

\* The rule table of C7 for a status and a document: the outcome code, and the accession
\* where the table fixes one (for OK the table fixes only the code).
TableCode(status_code, content) ==
    LET texts   == [i \in 1..Len(findAll(content, "ERROR")) |->
                        findAll(content, "ERROR")[i].text]
        Known   == {i \in 1..Len(texts) :
                        \E p \in 1..3 : Contains(KnownPhrases[p], texts[i])}
        first   == CHOOSE i \in Known : \A j \in Known : i <= j
        phrase  == CHOOSE p \in 1..3 :
                        /\ Contains(KnownPhrases[p], texts[first])
                        /\ \A q \in 1..(p - 1) : ~Contains(KnownPhrases[q], texts[first])
        tokens  == Split(texts[first])
        last    == tokens[Len(tokens)]
    IN  IF status_code # 200 THEN <<FATAL, None>>
        ELSE IF Len(texts) = 0 THEN <<OK>>
        ELSE IF Known = {} THEN <<FATAL, None>>
        ELSE IF phrase = 1
            THEN <<DUPLICATE, SelectSeq(last, LAMBDA c : c \notin {"\"", "."})>>
        ELSE IF phrase = 2 THEN <<DUPLICATE, tokens[5]>>
        ELSE <<MISSING_UPLOAD, None>>

\* C7: for every status, document and accession tag, handle_response returns what the rule
\* table gives, and never a negative code together with an accession.
C7_RuleTable ==
    ret # <<>>
        => LET got  == ret[1]
               want == TableCode(call.status_code, call.content)
           IN  /\ got[1] = want[1]
               /\ Len(want) = 2 => got[2] = want[2]
               /\ got[1] < 0 => got[2] = None
               /\ got[1] \in {FATAL, OK, DUPLICATE, MISSING_UPLOAD}

\* C7 witness: a document whose first ERROR matches no phrase and whose second reports an
\* existing object; the second decides, with the accession stripped of quotes and period.
C7_Witness ==
    /\ ret # <<>>
    /\ call.status_code = 200
    /\ call.content = ErrorReceipt(<<TextUnknown, TextExistsS>>)
    /\ ret[1] = <<DUPLICATE, AccERS1>>

\* The scenario of C8: sample-only, not modify, nothing found by the search, and the
\* submission of the sample classified OK with an accession extracted.
C8_Scenario ==
    /\ args.sample_only
    /\ ~args.modify
    /\ Bound("samp_list")
    /\ locals.samp_list = <<>>
    /\ Len(submits) >= 1
    /\ submits[1].first[1] = OK
    /\ Truthy(submits[1].first[2])

\* C8: in that scenario exactly one SAMPLE document is submitted and exactly one release is
\* then requested, for the accession extracted; no EXPERIMENT or RUN document is ever
\* submitted and no file transferred; and when the release too was classified OK, the
\* summary line shows success 1 and None for the experiment and run accessions, and the
\* process ends with exit code 0.
C8_SampleOnly ==
    C8_Scenario
        => /\ Len(requests) = 3
           /\ requests[1].kind = "GET"
           /\ SubmitPositions("SAMPLE") = {2}
           /\ ReleasePositions = {3}
           /\ requests[3].submission.actions[1].target = submits[1].first[2]
           /\ SubmitPositions("EXPERIMENT") = {}
           /\ SubmitPositions("RUN") = {}
           /\ FtpPositions = {}
           /\ Invoked = {"get_sample_list", "register_sample"}
           /\ submits[1].release[1] = OK
                  => /\ pc # "crashed"
                     /\ stdout # <<>>
                            => /\ Len(stdout) = 1
                               /\ Len(Split(stdout[1])) = 9
                               /\ Split(stdout[1])[1] = <<"1">>
                               /\ Split(stdout[1])[7] = submits[1].first[2]
                               /\ Split(stdout[1])[8] = <<"N", "o", "n", "e">>
                               /\ Split(stdout[1])[9] = <<"N", "o", "n", "e">>
                     /\ Terminated => proc = Exited(0)

\* C8 witness: the scenario, the release classified OK, and the process ended.
C8_Witness ==
    /\ C8_Scenario
    /\ submits[1].released
    /\ submits[1].release[1] = OK
    /\ pc = "done"
    /\ proc = Exited(0)
    /\ Len(stdout) = 1

\* The call of submit_today that register_sample made, when it made one.
SampleSubmits == {i \in 1..Len(submits) : submits[i].submit_type = "SAMPLE"}

\* C9: the envelope register_sample posts in modify mode holds the single action MODIFY (no
\* ADD, no HOLD, no hold date) and no release is requested for the sample, even when the
\* outcome is OK; in non-modify mode it holds ADD and then HOLD with today's date, and the
\* release is requested exactly when the outcome of the submission is OK.
C9_ModifyEnvelope ==
    \A i \in SampleSubmits :
        LET sub      == submits[i]
            envelope == sub.requests[1].submission
        IN  /\ sub.requests[1].doc_type = "SAMPLE"
            /\ requests[2] = sub.requests[1]
            /\ IF args.modify
               THEN /\ ActionNames(envelope) = <<"MODIFY">>
                    /\ DOMAIN envelope.actions[1] = {"name"}
                    /\ ~sub.released
                    /\ Len(sub.requests) = 1
                    /\ \A j \in ReleasePositions : j > 3
               ELSE /\ ActionNames(envelope) = <<"ADD", "HOLD">>
                    /\ envelope.actions[2].HoldUntilDate = Today
                    /\ sub.released <=> sub.first[1] = OK
                    /\ sub.released => IsRelease(requests[3])

\* C9 witness: modify mode, the sample submitted and classified OK with an accession, and
\* cli() past the sample stage with no release requested.
C9_Witness ==
    /\ args.modify
    /\ SampleSubmits # {}
    /\ \A i \in SampleSubmits : submits[i].first = <<OK, AccERS1>>
    /\ pc = "after_sample"
    /\ ReleasePositions = {}

\* instrument_name.replace('_', ' ').lower(), the form in which the table is searched.
Normalised(instrument_name) == Lower(ReplaceChar(instrument_name, "_", " "))

\* C10: applied to a table key itself, in any letter case and with spaces or underscores,
\* _convert_platform returns the platform and model of that key (of one of them, where two
\* keys differ only in letter case).
C10_OwnEntry ==
    ret # <<>>
        => LET same == {i \in 1..Len(valid_enums) :
                          Normalised(call.instrument_name) = Lower(valid_enums[i].key)}
           IN  same # {}
                   => \E i \in same :
                          ret[1] = <<valid_enums[i].make, valid_enums[i].model>>

===========================================================================
